---- MODULE Spec2Model ----
(***************************************************************************)
(* Model of doclint (src/src/doclint.js): the text helpers, the five rule  *)
(* evaluators, lintFile, formatOutput, loadConfig and the `lint` command.  *)
(*                                                                         *)
(* A JavaScript string is a sequence of one-character strings.  A document *)
(* tree is the sequence, in document (preorder) order, of its block nodes; *)
(* a block node carries its type, its start line and the sequence of its   *)
(* inline leaves, which is what unist-util-visit walks.                    *)
(***************************************************************************)
EXTENDS Integers, Sequences, FiniteSets, TLC

VARIABLES pc, text, verdict, ast, ruleName, ruleConfig, config, issues, thrown,
          fs, cfgSource, report, exitCode, steps

vars == <<pc, text, verdict, ast, ruleName, ruleConfig, config, issues, thrown,
          fs, cfgSource, report, exitCode, steps>>

\* Value of a variable a specification does not use.
Null == "null"

\* JavaScript's undefined (a missing property, a missing args field).
Undefined == "undefined"

(***************************************************************************)
(* Characters                                                              *)
(***************************************************************************)
Lowers == <<"a","b","c","d","e","f","g","h","i","j","k","l","m",
            "n","o","p","q","r","s","t","u","v","w","x","y","z">>

Uppers == <<"A","B","C","D","E","F","G","H","I","J","K","L","M",
            "N","O","P","Q","R","S","T","U","V","W","X","Y","Z">>

\* String.prototype.toUpperCase on one character.
toUpperCase(c) ==
  IF \E i \in DOMAIN Lowers : Lowers[i] = c
  THEN Uppers[CHOOSE i \in DOMAIN Lowers : Lowers[i] = c]
  ELSE c

\* String.prototype.toLowerCase on one character.
toLowerCase(c) ==
  IF \E i \in DOMAIN Uppers : Uppers[i] = c
  THEN Lowers[CHOOSE i \in DOMAIN Uppers : Uppers[i] = c]
  ELSE c

\* String.prototype.toLowerCase on a string.
LowerCased(s) == [i \in 1..Len(s) |-> toLowerCase(s[i])]

\* The characters the regular expression class \s matches.
Whitespace == {" "}

\* The characters the class [.!?] matches.
Terminators == {".", "!", "?"}

\* Index of the first character of s at or after i that is not in sep
\* (Len(s) + 1 when there is none).
RECURSIVE SkipRun(_, _, _)
SkipRun(s, sep, i) ==
  IF i > Len(s) \/ s[i] \notin sep THEN i ELSE SkipRun(s, sep, i + 1)

\* String.prototype.split on a regular expression matching runs of one or
\* more characters of sep: the pieces between the runs, empty pieces kept
\* (a leading or trailing run gives an empty first or last piece).
RECURSIVE SplitFrom(_, _, _, _)
SplitFrom(s, sep, i, cur) ==
  IF i > Len(s) THEN <<cur>>
  ELSE IF s[i] \in sep
       THEN <<cur>> \o SplitFrom(s, sep, SkipRun(s, sep, i), <<>>)
       ELSE SplitFrom(s, sep, i + 1, Append(cur, s[i]))

Split(s, sep) == SplitFrom(s, sep, 1, <<>>)

\* String.prototype.trim.
RECURSIVE TrimLeft(_)
TrimLeft(s) ==
  IF s # <<>> /\ Head(s) \in Whitespace THEN TrimLeft(Tail(s)) ELSE s

RECURSIVE TrimRight(_)
TrimRight(s) ==
  IF s # <<>> /\ s[Len(s)] \in Whitespace
  THEN TrimRight(SubSeq(s, 1, Len(s) - 1)) ELSE s

Trim(s) == TrimRight(TrimLeft(s))

\* String.prototype.includes.
Includes(s, sub) ==
  \E k \in 0..(Len(s) - Len(sub)) :
    \A j \in 1..Len(sub) : s[k + j] = sub[j]

(***************************************************************************)
(* Helper functions                                                        *)
(***************************************************************************)
\* Number of words[i], i >= 1 (0-based), that are non-empty and start with a
\* character equal to its own upper-casing.
capitalizedCount(words) ==
  Cardinality({i \in 2..Len(words) :
                 /\ Len(words[i]) > 0
                 /\ words[i][1] = toUpperCase(words[i][1])})

isSentenceCase(t) ==
  IF Len(t) = 0 THEN TRUE
  ELSE IF t[1] # toUpperCase(t[1]) THEN FALSE
  ELSE LET words == Split(t, Whitespace)
       IN  IF Len(words) <= 1 THEN TRUE
           ELSE 2 * capitalizedCount(words) < Len(words)

splitIntoSentences(t) ==
  SelectSeq([i \in 1..Len(Split(t, Terminators)) |->
               Trim(Split(t, Terminators)[i])],
            LAMBDA s : s # <<>>)

countWords(t) == Len(SelectSeq(Split(t, Whitespace), LAMBDA w : Len(w) > 0))

(***************************************************************************)
(* Bounded inputs                                                          *)
(***************************************************************************)
\* All strings over alphabet of length at most n.
StringsUpTo(alphabet, n) == UNION {[1..k -> alphabet] : k \in 0..n}

MaxTextLen == 4

CaseAlphabet == {"A", "b", " ", "1"}

(***************************************************************************)
(* isSentenceCase applied to an arbitrary heading text                     *)
(***************************************************************************)
InitCase ==
  /\ pc = "ready"
  /\ text \in StringsUpTo(CaseAlphabet, MaxTextLen)
  /\ verdict = Null
  /\ ast = Null /\ ruleName = Null /\ ruleConfig = Null /\ config = Null
  /\ issues = <<>> /\ thrown = FALSE /\ fs = Null /\ cfgSource = Null
  /\ report = Null /\ exitCode = Null /\ steps = <<>>

ClassifyCase ==
  /\ pc = "ready"
  /\ verdict' = isSentenceCase(text)
  /\ pc' = "classified"
  /\ UNCHANGED <<text, ast, ruleName, ruleConfig, config, issues, thrown,
                 fs, cfgSource, report, exitCode, steps>>

NextCase == ClassifyCase

SpecCase == InitCase /\ [][NextCase]_vars

(***************************************************************************)
(* C8: for every text, isSentenceCase(text) equals the documented policy:  *)
(* true for the empty text; false when the first character of the first    *)
(* word is not uppercase, also when whitespace precedes that word; true    *)
(* for a single word; otherwise true iff fewer than half of all words are  *)
(* words after the first that start uppercase.                             *)
(***************************************************************************)
\* "Uppercase" by the case-folding comparison the policy names.
IsUpperFolded(c) == c = toUpperCase(c)

DocumentedSentenceCase(t) ==
  IF t = <<>> THEN TRUE
  ELSE LET words == Split(t, Whitespace)
           real  == SelectSeq(words, LAMBDA w : Len(w) > 0)
       IN  IF real # <<>> /\ ~IsUpperFolded(real[1][1]) THEN FALSE
           ELSE IF Len(words) <= 1 THEN TRUE
           ELSE 2 * Cardinality({i \in 2..Len(words) :
                                   Len(words[i]) > 0 /\ IsUpperFolded(words[i][1])})
                  < Len(words)

C8_MatchesDocumentedPolicy ==
  pc = "classified" => verdict = DocumentedSentenceCase(text)

(***************************************************************************)
(* Document trees, rule configurations, diagnostics                        *)
(***************************************************************************)
\* extractText: the values of the subtree's leaves of type 'text', in
\* document order, concatenated.
RECURSIVE ConcatAll(_)
ConcatAll(ss) == IF ss = <<>> THEN <<>> ELSE Head(ss) \o ConcatAll(Tail(ss))

extractText(node) ==
  ConcatAll([i \in 1..Len(SelectSeq(node.children, LAMBDA l : l.type = "text")) |->
               SelectSeq(node.children, LAMBDA l : l.type = "text")[i].value])

\* unist-util-visit restricted to the given node types, in document order.
Visit(tree, types) == SelectSeq(tree, LAMBDA n : n.type \in types)

\* node.position?.start.line || 0
StartLine(node) == IF "line" \in DOMAIN node THEN node.line ELSE 0

\* config.args.<field> || dflt, for a numeric field: a missing field is
\* undefined and 0 is falsy, so both give dflt.
ArgOr(args, field, dflt) ==
  IF field \in DOMAIN args /\ args[field] # 0 THEN args[field] ELSE dflt

\* config.args.phrases || []
PhrasesOr(args) == IF "phrases" \in DOMAIN args THEN args.phrases ELSE <<>>

Issue(node, rule, cfg) ==
  [line |-> StartLine(node), rule |-> rule,
   severity |-> cfg.level, message |-> cfg.message]

\* n copies of x.
Repeat(x, n) == [i \in 1..n |-> x]

(***************************************************************************)
(* Rule implementations                                                    *)
(***************************************************************************)
headingCase(tree, cfg) ==
  LET hs == Visit(tree, {"heading"})
  IN  ConcatAll([i \in 1..Len(hs) |->
        IF ~isSentenceCase(extractText(hs[i]))
        THEN <<Issue(hs[i], "heading-case", cfg)>> ELSE <<>>])

minimumWordsInSentence(tree, cfg) ==
  LET ps == Visit(tree, {"paragraph"})
      minWords == ArgOr(cfg.args, "min", 10)
  IN  ConcatAll([i \in 1..Len(ps) |->
        LET sentences == splitIntoSentences(extractText(ps[i]))
            hits == SelectSeq(sentences,
                      LAMBDA s : countWords(s) > 0 /\ countWords(s) < minWords)
        IN  Repeat(Issue(ps[i], "minimum-words-in-sentence", cfg), Len(hits))])

maxWordsInSentence(tree, cfg) ==
  LET ps == Visit(tree, {"paragraph"})
      limit == ArgOr(cfg.args, "limit", 25)
  IN  ConcatAll([i \in 1..Len(ps) |->
        LET sentences == splitIntoSentences(extractText(ps[i]))
            hits == SelectSeq(sentences, LAMBDA s : countWords(s) > limit)
        IN  Repeat(Issue(ps[i], "max-words-in-sentence", cfg), Len(hits))])

maxSentencesInParagraph(tree, cfg) ==
  LET ps == Visit(tree, {"paragraph"})
      limit == ArgOr(cfg.args, "limit", 5)
  IN  ConcatAll([i \in 1..Len(ps) |->
        IF Len(splitIntoSentences(extractText(ps[i]))) > limit
        THEN <<Issue(ps[i], "max-sentences-in-paragraph", cfg)>> ELSE <<>>])

\* bannedPhrases that looks at paragraphs only.
bannedPhrasesParagraphsOnly(tree, cfg) ==
  LET ns == Visit(tree, {"paragraph"})
      phrases == PhrasesOr(cfg.args)
  IN  ConcatAll([i \in 1..Len(ns) |->
        LET txt == LowerCased(extractText(ns[i]))
            hits == SelectSeq(phrases, LAMBDA p : Includes(txt, LowerCased(p)))
        IN  Repeat(Issue(ns[i], "banned-phrases", cfg), Len(hits))])

bannedPhrases(tree, cfg) ==
  LET ns == Visit(tree, {"paragraph", "heading"})
      phrases == PhrasesOr(cfg.args)
  IN  ConcatAll([i \in 1..Len(ns) |->
        LET txt == LowerCased(extractText(ns[i]))
            hits == SelectSeq(phrases, LAMBDA p : Includes(txt, LowerCased(p)))
        IN  Repeat(Issue(ns[i], "banned-phrases", cfg), Len(hits))])

\* The own properties of the `rules` object.
Catalog == {"headingCase", "minimumWordsInSentence", "maxWordsInSentence",
            "maxSentencesInParagraph", "bannedPhrases"}

\* rules[name](tree, cfg) for a name of the catalog.
RunRule(name, tree, cfg) ==
  CASE name = "headingCase" -> headingCase(tree, cfg)
    [] name = "minimumWordsInSentence" -> minimumWordsInSentence(tree, cfg)
    [] name = "maxWordsInSentence" -> maxWordsInSentence(tree, cfg)
    [] name = "maxSentencesInParagraph" -> maxSentencesInParagraph(tree, cfg)
    [] name = "bannedPhrases" -> bannedPhrases(tree, cfg)

(***************************************************************************)
(* One evaluator applied to one document tree                              *)
(***************************************************************************)
MaxLeaves == 2

MaxPhrases == 2

MaxSentences == 6

MaxWords == 26

MaxThreshold == 3

Text(v) == [type |-> "text", value |-> v]

\* A block node with the given inline leaves.
Block(type, line, leaves) == [type |-> type, line |-> line, children |-> leaves]

\* A fenced code block: a literal, no inline leaves.
CodeBlock(line) == Block("code", line, <<>>)

\* Inline leaves: literal text, and inline code, which is not of type 'text'.
BannedLeaves == [type : {"text", "inlineCode"}, value : {<<"a">>, <<"A">>, <<"b">>}]

BannedNodes ==
  {Block(t, 1, c) : t \in {"heading", "paragraph"},
                    c \in StringsUpTo(BannedLeaves, MaxLeaves)}
    \cup {CodeBlock(1)}

BannedTailNodes ==
  {Block("heading", 2, <<Text(<<"a">>)>>),
   Block("paragraph", 2, <<Text(<<"A">>), Text(<<"b">>)>>),
   CodeBlock(2)}

BannedDocs ==
  {<<>>} \cup {<<n>> : n \in BannedNodes}
         \cup {<<n, m>> : n \in BannedNodes, m \in BannedTailNodes}

BannedPhrasePool == {<<>>, <<"a">>, <<"A", "b">>, <<"b", "a">>}

BannedArgs ==
  {<<>>} \cup {[phrases |-> ps] : ps \in StringsUpTo(BannedPhrasePool, MaxPhrases)}

\* k sentences of w one-letter words: "a a. a a. a a."
RECURSIVE Sentence(_)
Sentence(w) == IF w <= 1 THEN <<"a">> ELSE <<"a", " ">> \o Sentence(w - 1)

RECURSIVE Paragraph(_, _)
Paragraph(k, w) ==
  IF k <= 1 THEN Sentence(w) \o <<".">>
  ELSE Sentence(w) \o <<".", " ">> \o Paragraph(k - 1, w)

ThresholdRules == {"minimumWordsInSentence", "maxWordsInSentence",
                   "maxSentencesInParagraph"}

\* The args field each threshold rule reads.
ThresholdField(name) == IF name = "minimumWordsInSentence" THEN "min" ELSE "limit"

ThresholdArgs(name) ==
  {<<>>} \cup {[f \in {ThresholdField(name)} |-> v] : v \in 0..MaxThreshold}

\* Paragraphs of at most MaxSentences sentences and MaxWords words in all.
ThresholdDocs ==
  {<<Block("paragraph", 1, <<Text(Paragraph(kw[1], kw[2]))>>)>> :
     kw \in {p \in (1..MaxSentences) \X (1..MaxWords) : p[1] * p[2] <= MaxWords}}

HeadingDocs ==
  {<<Block("heading", 1, <<Text(t)>>)>> : t \in StringsUpTo(CaseAlphabet, MaxTextLen)}

InitRules ==
  /\ pc = "ready"
  /\ ruleName \in Catalog
  /\ \/ /\ ruleName = "bannedPhrases"
        /\ ast \in BannedDocs
        /\ \E a \in BannedArgs :
             ruleConfig = [level |-> "error", message |-> "Banned phrase identified.",
                           args |-> a]
     \/ /\ ruleName \in ThresholdRules
        /\ ast \in ThresholdDocs
        /\ \E a \in ThresholdArgs(ruleName) :
             ruleConfig = [level |-> "warning", message |-> "Threshold crossed.",
                           args |-> a]
     \/ /\ ruleName = "headingCase"
        /\ ast \in HeadingDocs
        /\ ruleConfig = [level |-> "warning",
                         message |-> "Heading should be in sentence case.",
                         args |-> <<>>]
  /\ issues = <<>> /\ thrown = FALSE
  /\ text = Null /\ verdict = Null /\ config = Null /\ fs = Null
  /\ cfgSource = Null /\ report = Null /\ exitCode = Null /\ steps = <<>>

\* rules[ruleName](ast, ruleConfig)
Evaluate ==
  /\ pc = "ready"
  /\ issues' = RunRule(ruleName, ast, ruleConfig)
  /\ pc' = "evaluated"
  /\ UNCHANGED <<text, verdict, ast, ruleName, ruleConfig, config, thrown,
                 fs, cfgSource, report, exitCode, steps>>

NextRules == Evaluate

SpecRules == InitRules /\ [][NextRules]_vars

(***************************************************************************)
(* C9: a threshold rule uses its default (min 10, limit 25, limit 5) only  *)
(* when its args field is absent; a configured value, 0 included, is the   *)
(* threshold the evaluator compares against.                               *)
(***************************************************************************)
DocumentedDefault(name) ==
  CASE name = "minimumWordsInSentence" -> 10
    [] name = "maxWordsInSentence" -> 25
    [] name = "maxSentencesInParagraph" -> 5

ConfiguredThreshold(name, args) ==
  IF ThresholdField(name) \in DOMAIN args
  THEN args[ThresholdField(name)] ELSE DocumentedDefault(name)

\* Diagnostics the rule owes one paragraph under threshold t.
OwedByThreshold(name, node, t) ==
  LET sentences == splitIntoSentences(extractText(node))
      counts == [i \in 1..Len(sentences) |-> countWords(sentences[i])]
  IN  CASE name = "minimumWordsInSentence" ->
             Cardinality({i \in DOMAIN counts : counts[i] > 0 /\ counts[i] < t})
        [] name = "maxWordsInSentence" ->
             Cardinality({i \in DOMAIN counts : counts[i] > t})
        [] name = "maxSentencesInParagraph" ->
             IF Len(sentences) > t THEN 1 ELSE 0

C9_ConfiguredThresholdUsed ==
  (pc = "evaluated" /\ ruleName \in ThresholdRules) =>
    Len(issues) =
      OwedByThreshold(ruleName, ast[1], ConfiguredThreshold(ruleName, ruleConfig.args))

(***************************************************************************)
(* C10: banned-phrases visits every paragraph and heading node and emits,  *)
(* on the node's line, one diagnostic per entry of args.phrases that       *)
(* occurs in the node's extracted text ignoring case, duplicates kept;     *)
(* nothing for other nodes, for no match, or for an empty phrase list.     *)
(***************************************************************************)
\* phrase occurs in s at some offset, characters compared ignoring case.
OccursIgnoringCase(phrase, s) ==
  \E k \in 0..(Len(s) - Len(phrase)) :
    \A j \in 1..Len(phrase) : toUpperCase(s[k + j]) = toUpperCase(phrase[j])

ListedPhrases(cfg) == IF "phrases" \in DOMAIN cfg.args THEN cfg.args.phrases ELSE <<>>

MatchingEntries(cfg, node) ==
  {i \in DOMAIN ListedPhrases(cfg) :
     OccursIgnoringCase(ListedPhrases(cfg)[i], extractText(node))}

C10_BannedPhrasesPerEntry ==
  (pc = "evaluated" /\ ruleName = "bannedPhrases") =>
    /\ \A n \in DOMAIN ast :
         Cardinality({i \in DOMAIN issues : issues[i].line = ast[n].line}) =
           IF ast[n].type \in {"paragraph", "heading"}
           THEN Cardinality(MatchingEntries(ruleConfig, ast[n])) ELSE 0
    /\ \A i \in DOMAIN issues :
         /\ issues[i].rule = "banned-phrases"
         /\ issues[i].severity = ruleConfig.level
         /\ issues[i].message = ruleConfig.message
         /\ \E n \in DOMAIN ast : ast[n].line = issues[i].line
    /\ \A i, j \in DOMAIN issues : i < j => issues[i].line <= issues[j].line

\* A heading matched by two entries that differ from its text in case, and a
\* paragraph matched as well.
C10_Witness ==
  /\ pc = "evaluated" /\ ruleName = "bannedPhrases"
  /\ Len(ast) = 2 /\ ast[1].type = "heading"
  /\ Cardinality({i \in DOMAIN issues : issues[i].line = 1}) = 2
  /\ Cardinality({i \in DOMAIN issues : issues[i].line = 2}) >= 1
  /\ \E i \in DOMAIN ListedPhrases(ruleConfig) :
       /\ ~Includes(extractText(ast[1]), ListedPhrases(ruleConfig)[i])
       /\ i \in MatchingEntries(ruleConfig, ast[1])

(***************************************************************************)
(* lintFile                                                                *)
(***************************************************************************)
\* Properties `rules` inherits from Object.prototype.  rules[name] is truthy
\* for them as well.  Called with (ast, ruleConfig), toString and
\* toLocaleString return the string "[object Object]", which the spread
\* pushes character by character; the others return a value that is not
\* iterable (or, for __proto__, are not callable), and the call throws a
\* TypeError.
InheritedReturningString == {"toString", "toLocaleString"}

InheritedThrowing == {"constructor", "hasOwnProperty", "isPrototypeOf",
                      "propertyIsEnumerable", "valueOf", "__proto__"}

\* A JavaScript string that ended up as an element of allIssues.
Str(c) == [str |-> c]

ObjectToString ==
  <<Str("["), Str("o"), Str("b"), Str("j"), Str("e"), Str("c"), Str("t"), Str(" "),
    Str("O"), Str("b"), Str("j"), Str("e"), Str("c"), Str("t"), Str("]")>>

\* The for loop of lintFile over Object.entries(config.rules), from entry i.
RECURSIVE PushAll(_, _, _)
PushAll(tree, entries, i) ==
  IF i > Len(entries) THEN [thrown |-> FALSE, issues |-> <<>>]
  ELSE LET name == entries[i].name
           rest == PushAll(tree, entries, i + 1)
           here == IF name \in Catalog THEN RunRule(name, tree, entries[i].cfg)
                   ELSE IF name \in InheritedReturningString THEN ObjectToString
                   ELSE <<>>
       IN  IF name \in InheritedThrowing \/ rest.thrown
           THEN [thrown |-> TRUE, issues |-> <<>>]
           ELSE [thrown |-> FALSE, issues |-> here \o rest.issues]

\* (a, b) => a.line - b.line as Array.prototype.sort reads it: a missing
\* line makes the difference NaN, which sort takes as 0.
SortCompare(a, b) ==
  IF "line" \in DOMAIN a /\ "line" \in DOMAIN b THEN a.line - b.line ELSE 0

Reverse(s) == [i \in 1..Len(s) |-> s[Len(s) + 1 - i]]

\* Array.prototype.sort of V8 (TimSort) on fewer than 64 elements: the
\* leading run is found (and reversed when strictly descending), then every
\* later element is placed by binary insertion.  With a comparator that is
\* a consistent ordering this is the stable sort.
RunLength(arr, descending) ==
  LET Continues(idx) == IF descending THEN SortCompare(arr[idx], arr[idx - 1]) < 0
                        ELSE SortCompare(arr[idx], arr[idx - 1]) >= 0
  IN  CHOOSE r \in 2..Len(arr) :
        /\ \A idx \in 3..r : Continues(idx)
        /\ r = Len(arr) \/ ~Continues(r + 1)

RECURSIVE BinarySearch(_, _, _, _)
BinarySearch(arr, pivot, left, right) ==
  IF left >= right THEN left
  ELSE LET mid == left + ((right - left) \div 2)
       IN  IF SortCompare(pivot, arr[mid + 1]) < 0
           THEN BinarySearch(arr, pivot, left, mid)
           ELSE BinarySearch(arr, pivot, mid + 1, right)

RECURSIVE BinaryInsertionSort(_, _)
BinaryInsertionSort(arr, start) ==
  IF start >= Len(arr) THEN arr
  ELSE LET pivot == arr[start + 1]
           pos == BinarySearch(arr, pivot, 0, start)
       IN  BinaryInsertionSort(
             SubSeq(arr, 1, pos) \o <<pivot>> \o SubSeq(arr, pos + 1, start)
               \o SubSeq(arr, start + 2, Len(arr)),
             start + 1)

Sort(arr) ==
  IF Len(arr) < 2 THEN arr
  ELSE LET descending == SortCompare(arr[2], arr[1]) < 0
           run == RunLength(arr, descending)
           made == IF descending
                   THEN Reverse(SubSeq(arr, 1, run)) \o SubSeq(arr, run + 1, Len(arr))
                   ELSE arr
       IN  BinaryInsertionSort(made, run)

\* lintFile(filePath, config) once parseMarkdown has returned tree: either a
\* TypeError is thrown, or the sorted allIssues is returned.
lintFile(tree, cfg) ==
  LET pushed == PushAll(tree, cfg.rules, 1)
  IN  IF pushed.thrown THEN pushed
      ELSE [thrown |-> FALSE, issues |-> Sort(pushed.issues)]

(***************************************************************************)
(* lintFile applied to one document tree and one configuration             *)
(***************************************************************************)
MaxNodes == 2

MaxRules == 3

LintTexts == {<<"b">>, <<"A">>, <<"A", " ", "b", ".", " ", "b", ".">>}

LintShapes ==
  {[type |-> t, children |-> <<Text(v)>>] : t \in {"heading", "paragraph"}, v \in LintTexts}
    \cup {[type |-> "code", children |-> <<>>]}

\* Documents of at most n blocks, block i starting on line i.
DocsUpTo(n) ==
  UNION {{[i \in 1..k |-> Block(shape[i].type, i, shape[i].children)] :
            shape \in [1..k -> LintShapes]} : k \in 0..n}

\* Rule names a configuration file may use as keys of "rules": the catalog,
\* a name that is no property of `rules` at all, and two inherited ones.
LintRuleNames == Catalog \cup {"spellCheck", "toString", "constructor"}

RuleConfigFor(name) ==
  CASE name = "headingCase" ->
         [level |-> "warning", message |-> "Heading should be in sentence case.",
          args |-> <<>>]
    [] name = "minimumWordsInSentence" ->
         [level |-> "warning", message |-> "Sentence may contain too few words",
          args |-> [min |-> 2]]
    [] name = "maxWordsInSentence" ->
         [level |-> "error", message |-> "Too many words in sentence.",
          args |-> [limit |-> 1]]
    [] name = "maxSentencesInParagraph" ->
         [level |-> "error", message |-> "Too many sentences in paragraph.",
          args |-> [limit |-> 1]]
    [] name = "bannedPhrases" ->
         [level |-> "error", message |-> "Banned phrase identified.",
          args |-> [phrases |-> << <<"b">> >>]]
    [] OTHER -> [level |-> "info", message |-> "Not a rule.", args |-> <<>>]

\* The entries of a "rules" object: at most n keys, all different, in the
\* order Object.entries lists them.
RuleEntriesUpTo(names, n) ==
  UNION {{[i \in 1..k |-> [name |-> ns[i], cfg |-> RuleConfigFor(ns[i])]] :
            ns \in {f \in [1..k -> names] : \A a, b \in 1..k : a # b => f[a] # f[b]}} :
         k \in 0..n}

InitLint ==
  /\ pc = "parsed"
  /\ ast \in DocsUpTo(MaxNodes)
  /\ \E rs \in RuleEntriesUpTo(LintRuleNames, MaxRules) :
       config = [rules |-> rs, format |-> "text"]
  /\ issues = <<>> /\ thrown = FALSE
  /\ text = Null /\ verdict = Null /\ ruleName = Null /\ ruleConfig = Null
  /\ fs = Null /\ cfgSource = Null /\ report = Null /\ exitCode = Null /\ steps = <<>>

LintFile ==
  /\ pc = "parsed"
  /\ LET res == lintFile(ast, config)
     IN  /\ issues' = res.issues
         /\ thrown' = res.thrown
         /\ pc' = IF res.thrown THEN "thrown" ELSE "linted"
  /\ UNCHANGED <<text, verdict, ast, ruleName, ruleConfig, config,
                 fs, cfgSource, report, exitCode, steps>>

NextLint == LintFile

SpecLint == InitLint /\ [][NextLint]_vars

(***************************************************************************)
(* C1: the sequence lintFile returns is sorted by line ascending, and      *)
(* diagnostics with equal line keep the order in which they were appended  *)
(* (the order of their rules in config.rules, emission order within one).  *)
(***************************************************************************)
HasLine(e) == "line" \in DOMAIN e

\* allIssues as appended, before the sort.
Appended == PushAll(ast, config.rules, 1).issues

OnLine(seq, l) == SelectSeq(seq, LAMBDA e : HasLine(e) /\ e.line = l)

C1_SortedByLineStable ==
  pc = "linted" =>
    /\ \A i, j \in DOMAIN issues :
         (i < j /\ HasLine(issues[i]) /\ HasLine(issues[j])) =>
           issues[i].line <= issues[j].line
    /\ \A l \in 0..MaxNodes : OnLine(issues, l) = OnLine(Appended, l)

(***************************************************************************)
(* C3: a key of config.rules that is not one of the five evaluators is     *)
(* skipped silently: lintFile raises no error and returns what it returns  *)
(* for the same config without that entry.                                 *)
(***************************************************************************)
WithoutUnknownRules(cfg) ==
  [cfg EXCEPT !.rules = SelectSeq(cfg.rules, LAMBDA e : e.name \in Catalog)]

C3_UnknownRuleSkipped ==
  pc \in {"linted", "thrown"} =>
    /\ ~thrown
    /\ issues = lintFile(ast, WithoutUnknownRules(config)).issues

(***************************************************************************)
(* The `lint <file>` command                                               *)
(***************************************************************************)
Severities == {"info", "warning", "error"}

\* ['are used to', 'has been', 'has finished', 'if you want to']
DefaultPhrases ==
  << <<"a","r","e"," ","u","s","e","d"," ","t","o">>,
     <<"h","a","s"," ","b","e","e","n">>,
     <<"h","a","s"," ","f","i","n","i","s","h","e","d">>,
     <<"i","f"," ","y","o","u"," ","w","a","n","t"," ","t","o">> >>

defaultConfig ==
  [rules |->
     << [name |-> "headingCase",
         cfg |-> [level |-> "warning", message |-> "Heading should be in sentence case.",
                  args |-> <<>>]],
        [name |-> "minimumWordsInSentence",
         cfg |-> [level |-> "warning", message |-> "Sentence may contain too few words",
                  args |-> [min |-> 10]]],
        [name |-> "maxWordsInSentence",
         cfg |-> [level |-> "error", message |-> "Too many words in sentence.",
                  args |-> [limit |-> 25]]],
        [name |-> "maxSentencesInParagraph",
         cfg |-> [level |-> "error", message |-> "Too many sentences in paragraph.",
                  args |-> [limit |-> 5]]],
        [name |-> "bannedPhrases",
         cfg |-> [level |-> "error", message |-> "Banned phrase identified.",
                  args |-> [phrases |-> DefaultPhrases]]] >>,
   format |-> "text"]

\* A path that does not exist, a file JSON.parse rejects, a file it accepts.
Absent == [state |-> "absent"]
Malformed == [state |-> "malformed"]
Valid(c) == [state |-> "valid", config |-> c]
\* No --config option on the command line.
NotGiven == [state |-> "none"]

\* loadConfig that treats a file it cannot parse like a missing one.
loadConfigSkippingMalformed(files) ==
  IF files.explicit.state = "valid"
  THEN [exit |-> FALSE, source |-> "explicit", config |-> files.explicit.config]
  ELSE IF files.local.state = "valid"
  THEN [exit |-> FALSE, source |-> "local", config |-> files.local.config]
  ELSE [exit |-> FALSE, source |-> "default", config |-> defaultConfig]

\* loadConfig that looks at ./.doclint.json before the --config path.
loadConfigLocalFirst(files) ==
  IF files.local.state \in {"malformed", "valid"}
  THEN IF files.local.state = "valid"
       THEN [exit |-> FALSE, source |-> "local", config |-> files.local.config]
       ELSE [exit |-> TRUE]
  ELSE IF files.explicit.state \in {"malformed", "valid"}
  THEN IF files.explicit.state = "valid"
       THEN [exit |-> FALSE, source |-> "explicit", config |-> files.explicit.config]
       ELSE [exit |-> TRUE]
  ELSE [exit |-> FALSE, source |-> "default", config |-> defaultConfig]

\* loadConfig(configPath): process.exit(1), or the configuration returned and
\* the source it came from.  files.explicit is what configPath names,
\* files.local is ./.doclint.json.
loadConfig(files) ==
  IF files.explicit.state \in {"malformed", "valid"}
  THEN IF files.explicit.state = "valid"
       THEN [exit |-> FALSE, source |-> "explicit", config |-> files.explicit.config]
       ELSE [exit |-> TRUE]
  ELSE IF files.local.state \in {"malformed", "valid"}
  THEN IF files.local.state = "valid"
       THEN [exit |-> FALSE, source |-> "local", config |-> files.local.config]
       ELSE [exit |-> TRUE]
  ELSE [exit |-> FALSE, source |-> "default", config |-> defaultConfig]

\* path.basename
basename(path) == path[Len(path)]

\* ${value} in a template literal.
Interpolate(e, field) ==
  IF field \notin DOMAIN e THEN Undefined
  ELSE IF field = "line" THEN ToString(e.line) ELSE e[field]

\* One line of the text report, as the pieces the template literal joins.
TextLine(fileName, issue) ==
  <<fileName, ":", Interpolate(issue, "line"), ": ", Interpolate(issue, "message"),
    " [", Interpolate(issue, "rule"), "] [", Interpolate(issue, "severity"), "]">>

\* formatOutput: the lines of the text report (joined by "\n"), or, for any
\* other format, the issues array itself.
formatOutput(filePath, iss, format) ==
  IF format = "text"
  THEN [kind |-> "string",
        lines |-> [i \in 1..Len(iss) |-> TextLine(basename(filePath), iss[i])]]
  ELSE [kind |-> "array", items |-> iss]

\* JSON.stringify of one element of the issues array: its own properties in
\* creation order, numbers as numbers and strings as strings.
JsonOf(e) ==
  IF "str" \in DOMAIN e THEN <<[string |-> e.str]>>
  ELSE <<[key |-> "line", number |-> e.line], [key |-> "rule", string |-> e.rule],
         [key |-> "severity", string |-> e.severity],
         [key |-> "message", string |-> e.message]>>

\* What writeOutput writes and what the command prints:
\* format === 'text' ? output : JSON.stringify(output, null, 2)
Rendered(output, format) ==
  IF format = "text" THEN [as |-> "text", lines |-> output.lines]
  ELSE [as |-> "json", records |-> [i \in 1..Len(output.items) |-> JsonOf(output.items[i])]]

\* hasErrors that counts warnings as well.
hasErrorsOrWarnings(iss) ==
  \E i \in DOMAIN iss :
    "severity" \in DOMAIN iss[i] /\ iss[i].severity \in {"error", "warning"}

\* issues.some(issue => issue.severity === 'error')
hasErrors(iss) ==
  \E i \in DOMAIN iss : "severity" \in DOMAIN iss[i] /\ iss[i].severity = "error"

MaxCliRules == 1

MaxCliNodes == 1

FilePath == <<"docs", "guide.md">>

CliRuleNames == {"headingCase", "bannedPhrases", "constructor", "toString"}

\* Configuration files: some rules, all at one level, and a format, which a
\* file may set to anything.
CliConfigs ==
  {[rules |-> [i \in DOMAIN rs |-> [rs[i] EXCEPT !.cfg.level = lv]], format |-> f] :
     rs \in RuleEntriesUpTo(CliRuleNames, MaxCliRules),
     lv \in Severities, f \in {"text", "json", "yaml"}}

LocalConfigs ==
  {[rules |-> <<[name |-> "bannedPhrases", cfg |-> RuleConfigFor("bannedPhrases")]>>,
    format |-> f] : f \in {"text", "json"}}

CliTexts == {<<"b">>, <<"A">>, <<"I","t"," ","h","a","s"," ","b","e","e","n",".">>}

CliShapes ==
  {[type |-> t, children |-> <<Text(v)>>] : t \in {"heading", "paragraph"}, v \in CliTexts}
    \cup {[type |-> "code", children |-> <<>>]}

CliDocs ==
  UNION {{[i \in 1..k |-> Block(shape[i].type, i, shape[i].children)] :
            shape \in [1..k -> CliShapes]} : k \in 0..MaxCliNodes}

\* fs: the input file (missing; there but unreadable; readable), the two
\* configuration files, and whether -o was given and its path can be written.
InitCli ==
  /\ pc = "start"
  /\ \E file \in {"missing", "unreadable", "readable"},
        explicit \in {NotGiven, Absent, Malformed} \cup {Valid(c) : c \in CliConfigs},
        local \in {Absent, Malformed} \cup {Valid(c) : c \in LocalConfigs},
        output \in {"none", "writable", "unwritable"} :
       fs = [file |-> file, explicit |-> explicit, local |-> local, output |-> output]
  /\ ast \in IF fs.file = "readable" THEN CliDocs ELSE {<<>>}
  /\ config = Null /\ cfgSource = Null
  /\ issues = <<>> /\ thrown = FALSE
  /\ report = Null /\ exitCode = Null /\ steps = <<>>
  /\ text = Null /\ verdict = Null /\ ruleName = Null /\ ruleConfig = Null

\* process.exit(code)
Exited(code, step) ==
  /\ exitCode' = code
  /\ pc' = "done"
  /\ steps' = Append(steps, step)

\* if (!fs.existsSync(filePath)) { ...; process.exit(1); }
CheckFile ==
  /\ pc = "start"
  /\ IF fs.file = "missing"
     THEN Exited(1, "file not found")
     ELSE /\ pc' = "loadConfig"
          /\ steps' = Append(steps, "existsSync")
          /\ UNCHANGED exitCode
  /\ UNCHANGED <<text, verdict, ast, ruleName, ruleConfig, config, issues, thrown,
                 fs, cfgSource, report>>

\* const config = loadConfig(configPath);
LoadConfig ==
  /\ pc = "loadConfig"
  /\ LET loaded == loadConfig(fs)
     IN  IF loaded.exit
         THEN /\ Exited(1, "config error")
              /\ UNCHANGED <<config, cfgSource>>
         ELSE /\ config' = loaded.config
              /\ cfgSource' = loaded.source
              /\ pc' = "lint"
              /\ steps' = Append(steps, "loadConfig")
              /\ UNCHANGED exitCode
  /\ UNCHANGED <<text, verdict, ast, ruleName, ruleConfig, issues, thrown,
                 fs, report>>

\* const issues = lintFile(filePath, config); parseMarkdown exits with 1
\* when the file cannot be read, and a TypeError thrown by the loop is
\* uncaught, which ends the process with code 1.
CliLintFile ==
  /\ pc = "lint"
  /\ IF fs.file = "unreadable"
     THEN /\ Exited(1, "read error")
          /\ UNCHANGED <<issues, thrown>>
     ELSE LET res == lintFile(ast, config)
          IN  /\ issues' = res.issues
              /\ thrown' = res.thrown
              /\ IF res.thrown
                 THEN Exited(1, "uncaught TypeError")
                 ELSE /\ pc' = "format"
                      /\ steps' = Append(steps, "lintFile")
                      /\ UNCHANGED exitCode
  /\ UNCHANGED <<text, verdict, ast, ruleName, ruleConfig, config,
                 fs, cfgSource, report>>

\* const output = formatOutput(filePath, issues, config.format);
\* if (outputPath) writeOutput(...); else console.log(...);
\* A failed write exits with 1.
WriteOutput ==
  /\ pc = "format"
  /\ fs.output # "none"
  /\ IF fs.output = "unwritable"
     THEN /\ Exited(1, "write error")
          /\ UNCHANGED report
     ELSE /\ report' = [to |-> "file",
                        content |-> Rendered(formatOutput(FilePath, issues, config.format),
                                             config.format)]
          /\ pc' = "exit"
          /\ steps' = Append(steps, "writeOutput")
          /\ UNCHANGED exitCode
  /\ UNCHANGED <<text, verdict, ast, ruleName, ruleConfig, config, issues, thrown,
                 fs, cfgSource>>

PrintOutput ==
  /\ pc = "format"
  /\ fs.output = "none"
  /\ report' = [to |-> "stdout",
                content |-> Rendered(formatOutput(FilePath, issues, config.format),
                                     config.format)]
  /\ pc' = "exit"
  /\ steps' = Append(steps, "console.log")
  /\ UNCHANGED <<text, verdict, ast, ruleName, ruleConfig, config, issues, thrown,
                 fs, cfgSource, exitCode>>

\* process.exit(hasErrors ? 1 : 0);
Exit ==
  /\ pc = "exit"
  /\ Exited(IF hasErrors(issues) THEN 1 ELSE 0, "exit")
  /\ UNCHANGED <<text, verdict, ast, ruleName, ruleConfig, config, issues, thrown,
                 fs, cfgSource, report>>

NextCli ==
  \/ CheckFile
  \/ LoadConfig
  \/ CliLintFile
  \/ WriteOutput
  \/ PrintOutput
  \/ Exit

SpecCli == InitCli /\ [][NextCli]_vars

\* The steps of the command that have run so far, as a set.
Ran == {steps[i] : i \in DOMAIN steps}

\* A report was written or printed.
Reported == Ran \cap {"writeOutput", "console.log"} # {}

\* The command ran to its last statement, process.exit(hasErrors ? 1 : 0).
Completed == pc = "done" /\ steps[Len(steps)] = "exit"

(***************************************************************************)
(* C2: a format that is neither 'text' nor 'json' is fatal at format time: *)
(* no report is produced for it and the run aborts with an error.          *)
(***************************************************************************)
C2_UnknownFormatFatal ==
  (cfgSource # Null /\ config.format \notin {"text", "json"}) =>
    /\ ~Reported
    /\ pc = "done" => (exitCode = 1 /\ ~Completed)

(***************************************************************************)
(* C4: when a lint run completes, the exit code is 0 if no diagnostic of   *)
(* the lint result has severity 'error' and 1 otherwise; 'info' and        *)
(* 'warning' never make it non-zero.                                       *)
(***************************************************************************)
\* issue.severity, undefined for an element that has none.
SeverityOf(e) == IF "severity" \in DOMAIN e THEN e.severity ELSE Undefined

C4_ExitCodeFromErrors ==
  Completed =>
    /\ issues = lintFile(ast, config).issues
    /\ exitCode = IF \E i \in DOMAIN issues : SeverityOf(issues[i]) = "error" THEN 1 ELSE 0
    /\ (\A i \in DOMAIN issues : SeverityOf(issues[i]) \in {"info", "warning"}) =>
         exitCode = 0

\* A completed run whose only diagnostics are warnings, exit code 0.
C4_Witness ==
  /\ Completed
  /\ issues # <<>>
  /\ \A i \in DOMAIN issues : SeverityOf(issues[i]) = "warning"
  /\ exitCode = 0

(***************************************************************************)
(* C5: loadConfig takes the --config file, else ./.doclint.json, else the  *)
(* built-in default; an absent source falls through to the next one, a     *)
(* source that is there but does not parse is fatal (exit 1) and never     *)
(* falls through.                                                          *)
(***************************************************************************)
Falls(source) == source.state \in {"none", "absent"}

\* loadConfig has run: it returned, or it ended the process.
ConfigResolved == Ran \cap {"loadConfig", "config error"} # {}

C5_ResolutionOrder ==
  ConfigResolved =>
    /\ fs.explicit.state = "valid" =>
         ("loadConfig" \in Ran /\ cfgSource = "explicit" /\ config = fs.explicit.config)
    /\ fs.explicit.state = "malformed" =>
         ("config error" \in Ran /\ exitCode = 1 /\ cfgSource = Null)
    /\ (Falls(fs.explicit) /\ fs.local.state = "valid") =>
         ("loadConfig" \in Ran /\ cfgSource = "local" /\ config = fs.local.config)
    /\ (Falls(fs.explicit) /\ fs.local.state = "malformed") =>
         ("config error" \in Ran /\ exitCode = 1 /\ cfgSource = Null)
    /\ (Falls(fs.explicit) /\ Falls(fs.local)) =>
         ("loadConfig" \in Ran /\ cfgSource = "default" /\ config = defaultConfig)

\* --config names a path that does not exist, and ./.doclint.json is used.
C5_Witness ==
  /\ fs.explicit.state = "absent" /\ fs.local.state = "valid"
  /\ cfgSource = "local"
  /\ Completed

(***************************************************************************)
(* C6: if the input file is missing or the configuration file fails to     *)
(* parse, the process exits with code 1 before any rule evaluator runs and *)
(* before any report is printed or written.                                *)
(***************************************************************************)
InputMissing == fs.file = "missing"

\* The configuration file loadConfig reads is not valid JSON.
ConfigFailsToParse ==
  \/ fs.explicit.state = "malformed"
  \/ Falls(fs.explicit) /\ fs.local.state = "malformed"

C6_FailFastNoReport ==
  (InputMissing \/ ConfigFailsToParse) =>
    /\ "lintFile" \notin Ran /\ issues = <<>>
    /\ ~Reported
    /\ pc = "done" =>
         /\ exitCode = 1
         /\ steps[Len(steps)] = (IF InputMissing THEN "file not found" ELSE "config error")
    /\ pc # "done" => ENABLED NextCli

\* The input file is there, the configuration file does not parse, and the
\* process has exited.
C6_Witness ==
  /\ ~InputMissing /\ ConfigFailsToParse
  /\ pc = "done" /\ exitCode = 1

(***************************************************************************)
(* C7: with format 'json' the report is one flat array with one record per *)
(* diagnostic, in the aggregator's order, and every record carries file,   *)
(* line, rule, severity and message, file being the linted file.           *)
(***************************************************************************)
Member(record, key) == CHOOSE m \in {record[k] : k \in DOMAIN record} : m.key = key

C7_JsonRecordsCarryFile ==
  (Reported /\ config.format = "json") =>
    /\ report.content.as = "json"
    /\ Len(report.content.records) = Len(issues)
    /\ \A i \in DOMAIN issues :
         LET record == report.content.records[i]
         IN  /\ \A k \in DOMAIN record : "key" \in DOMAIN record[k]
             /\ {record[k].key : k \in DOMAIN record} =
                  {"file", "line", "rule", "severity", "message"}
             /\ Member(record, "file").string = basename(FilePath)
             /\ Member(record, "line").number = issues[i].line
             /\ Member(record, "rule").string = issues[i].rule
             /\ Member(record, "severity").string = issues[i].severity
             /\ Member(record, "message").string = issues[i].message

====
